---- MODULE Spec2Model ----
(***************************************************************************)
(* Model of the browser-side authentication clients of pubhub:             *)
(*   src/src/lib/auth-jwt.ts  the bearer client (class AuthService)         *)
(*   src/src/lib/auth.ts      the cookie-session client and its timer       *)
(*                                                                         *)
(* JavaScript runs one task at a time: a step of the model is one          *)
(* synchronous section of the code, from a call or an event up to the next *)
(* await or return.                                                        *)
(***************************************************************************)
EXTENDS Integers, Sequences, FiniteSets, Bags, TLC

\* ------------------------------------------------------------------ bounds
\* Largest value of the clock (Date.now() / 1000), which starts at 1.
MaxNow == 2
\* Largest exp claim carried by a credential.
MaxExp == 2
\* Calls the application starts while this many requests are in flight are
\* not modelled (requests the code itself issues are never held back).
MaxInflight == 2
\* Largest id setInterval hands out.
MaxTimerId == 3
\* Renewal calls of the timer that may be awaiting their response at once.
MaxRenewals == 2
\* Cookie-session getCurrentUser calls that may be awaiting their response at once.
MaxUserFetches == 2

\* ------------------------------------------------------- credential strings
\* A credential is the sequence of its dot-delimited segments
\* (token.split(".")).  A segment is described by what atob and JSON.parse
\* make of it.
TOKEN_KEY == "pubhub_jwt_token"

NotBase64 == [b64 |-> FALSE]
NotJson == [b64 |-> TRUE, text |-> [json |-> FALSE]]
JsonSeg(v) == [b64 |-> TRUE, text |-> [json |-> TRUE, val |-> v]]
JsonNull == [type |-> "null"]
JsonNumber == [type |-> "number"]
JsonObject(props) == [type |-> "object", props |-> props]

\* The claims objects: with an exp claim, and without one.
ClaimsWithExp(e) == [sub |-> "u", exp |-> e]
ClaimsNoExp == [sub |-> "u"]

\* Header and signature segments are never read by the client.
OpaqueSeg == NotJson

EmptyString == << >>
OneSegment == <<OpaqueSeg>>
WithMiddle(seg) == <<OpaqueSeg, seg, OpaqueSeg>>
ExpToken(e) == WithMiddle(JsonSeg(JsonObject(ClaimsWithExp(e))))
NoExpToken == WithMiddle(JsonSeg(JsonObject(ClaimsNoExp)))

MalformedTokens ==
    { OneSegment,
      WithMiddle(NotBase64),
      WithMiddle(NotJson),
      WithMiddle(JsonSeg(JsonNull)),
      WithMiddle(JsonSeg(JsonNumber)) }

ExpTokens == { ExpToken(e) : e \in 0..MaxExp }

Tokens == MalformedTokens \cup ExpTokens \cup { NoExpToken }

\* Values of the token parameter an arriving URL may carry.
UrlTokens == { EmptyString, ExpToken(MaxExp), ExpToken(0), WithMiddle(NotBase64) }

\* Credentials the refresh endpoint may issue.
IssuedTokens == { ExpToken(MaxExp) }

\* ---------------------------------------------------------- JavaScript bits
Thrown == [threw |-> TRUE]
Value(v) == [threw |-> FALSE, val |-> v]

\* A JavaScript string is truthy unless it is empty.
Truthy(s) == s # EmptyString

\* token.split(".")[1]: undefined when there is no second segment, and
\* atob(undefined) decodes the text "undefined", which is not base64.
SecondSegment(token) == IF Len(token) >= 2 THEN token[2] ELSE NotBase64

atob(seg) == IF seg.b64 THEN Value(seg.text) ELSE Thrown

JSONparse(text) == IF text.json THEN Value(text.val) ELSE Thrown

\* JSON.parse(atob(token.split(".")[1]))
DecodePayload(token) ==
    LET a == atob(SecondSegment(token))
    IN  IF a.threw THEN Thrown ELSE JSONparse(a.val)

\* payload.exp: a TypeError on null, undefined on a value without the property.
ReadsExpThrows(payload) == payload.type = "null"
HasExp(payload) == payload.type = "object" /\ "exp" \in DOMAIN payload.props
\* `payload.exp` as a condition: undefined and 0 are falsy.
ExpTruthy(payload) == HasExp(payload) /\ payload.props.exp # 0

\* ------------------------------------------------------------------- state
VARIABLES
    localStorage,   \* the origin's storage: a map from keys to strings
    now,            \* Date.now() / 1000
    location,       \* window.location: [pathname, search]
    inflight,       \* bag of requests awaiting their response, by awaiting caller
    pending,        \* <<>> or the one fetchWithAuth outcome about to reach its caller
    fetched,        \* the calls to fetch() made by the latest step
    returned,       \* the calls that returned to the application in the latest step
    refreshTimer,   \* auth.ts: the module's timer handle, 0 for null
    intervals,      \* auth.ts: ids of the intervals the runtime will still fire
    nextId,         \* auth.ts: the id the next setInterval returns
    renewals,       \* auth.ts: refreshSession calls awaiting their response,
                    \*          a bag of the intervals whose firing made them
    userFetches,    \* auth.ts: getCurrentUser calls awaiting their response
    cleared         \* auth.ts: the ids passed to clearInterval by the latest step

jwtVars == <<localStorage, now, location, inflight, pending, fetched, returned>>
sessionVars == <<refreshTimer, intervals, nextId, renewals, userFetches, cleared>>
vars == <<localStorage, now, location, inflight, pending, fetched, returned,
          refreshTimer, intervals, nextId, renewals, userFetches, cleared>>

\* ----------------------------------------------------------- Credential Store
EmptyStorage == [k \in {} |-> EmptyString]

setToken(ls, token) == [k \in DOMAIN ls \cup {TOKEN_KEY} |->
                            IF k = TOKEN_KEY THEN token ELSE ls[k]]

HasItem(ls) == TOKEN_KEY \in DOMAIN ls

\* getToken() is null exactly when HasItem is false; otherwise it is this.
getToken(ls) == ls[TOKEN_KEY]

removeToken(ls) == [k \in DOMAIN ls \ {TOKEN_KEY} |-> ls[k]]

\* ------------------------------------------------------ Credential Inspector
isAuthenticated_NoExpInvalid(ls, t) ==
    IF ~HasItem(ls) \/ ~Truthy(getToken(ls))
    THEN [ret |-> FALSE, ls |-> ls]
    ELSE LET d == DecodePayload(getToken(ls))
         IN  IF d.threw \/ ReadsExpThrows(d.val)
             THEN [ret |-> FALSE, ls |-> removeToken(ls)]
             ELSE IF ~HasExp(d.val) \/ d.val.props.exp < t
                  THEN [ret |-> FALSE, ls |-> removeToken(ls)]
                  ELSE [ret |-> TRUE, ls |-> ls]

isAuthenticated_KeepsExpired(ls, t) ==
    IF ~HasItem(ls) \/ ~Truthy(getToken(ls))
    THEN [ret |-> FALSE, ls |-> ls]
    ELSE LET d == DecodePayload(getToken(ls))
         IN  IF d.threw \/ ReadsExpThrows(d.val)
             THEN [ret |-> FALSE, ls |-> removeToken(ls)]
             ELSE IF ExpTruthy(d.val) /\ d.val.props.exp < t
                  THEN [ret |-> FALSE, ls |-> ls]
                  ELSE [ret |-> TRUE, ls |-> ls]

\* isAuthenticated(): its result and the storage it leaves, at clock t.
isAuthenticated(ls, t) ==
    IF ~HasItem(ls) \/ ~Truthy(getToken(ls))
    THEN [ret |-> FALSE, ls |-> ls]
    ELSE LET d == DecodePayload(getToken(ls))
         IN  IF d.threw \/ ReadsExpThrows(d.val)
             THEN \* catch: removeToken(); return false
                  [ret |-> FALSE, ls |-> removeToken(ls)]
             ELSE IF ExpTruthy(d.val) /\ d.val.props.exp < t
                  THEN [ret |-> FALSE, ls |-> removeToken(ls)]
                  ELSE [ret |-> TRUE, ls |-> ls]

\* getTokenExpiration(): null, or the Date of exp * 1000.
getTokenExpiration(ls) ==
    IF ~HasItem(ls) \/ ~Truthy(getToken(ls))
    THEN [kind |-> "null"]
    ELSE LET d == DecodePayload(getToken(ls))
         IN  IF d.threw \/ ReadsExpThrows(d.val)
             THEN [kind |-> "null"]
             ELSE IF ExpTruthy(d.val)
                  THEN [kind |-> "date", ms |-> d.val.props.exp * 1000]
                  ELSE [kind |-> "null"]


\* ------------------------------------------------------------ window.location
\* The location is the value the code reads and assigns.  Assigning href
\* starts a navigation; the document that made the assignment keeps running
\* its pending continuations here (its unloading is not modelled).
NoParams == [k \in {} |-> EmptyString]
TokenParam(v) == [k \in {"token"} |-> v]
Pathnames == {"/", "/auth/callback"}

\* Where an OAuth redirect, or the user, may take the page.
Locations ==
    { [pathname |-> p, search |-> s] :
        p \in Pathnames, s \in {NoParams} \cup { TokenParam(v) : v \in UrlTokens } }

\* window.location.href = "/?error=session_expired"
SessionExpiredLocation ==
    [pathname |-> "/", search |-> [k \in {"error"} |-> <<"session_expired">>]]

\* new URLSearchParams(window.location.search).get("token") is null exactly
\* when HasTokenParam is false; otherwise it is location.search["token"].
HasTokenParam(loc) == "token" \in DOMAIN loc.search

\* ------------------------------------------------- Authenticated Request Pipeline
API_USER == "/api/user"
API_REFRESH == "/api/user/refresh-token"
API_LOGOUT == "/api/user/logout"
API_OTHER == "/api/other"

\* Header values are the words of the header line.
Bearer(token) == <<"Bearer", token>>
\* An Authorization value a caller may pass in options.headers.
CallerAuthorization == <<"Basic", EmptyString>>
JsonContentType == <<"application/json">>

NoHeaders == [k \in {} |-> JsonContentType]
\* The options.headers a caller of fetchWithAuth may pass.
CallerHeaderSets ==
    { NoHeaders,
      [k \in {"Accept"} |-> JsonContentType],
      [k \in {"Authorization"} |-> CallerAuthorization] }

getAuthHeaders(ls) ==
    IF HasItem(ls) /\ Truthy(getToken(ls))
    THEN [k \in {"Authorization", "Content-Type"} |->
             IF k = "Authorization" THEN Bearer(getToken(ls)) ELSE JsonContentType]
    ELSE [k \in {"Content-Type"} |-> JsonContentType]

\* { ...headers, ...options.headers }: a later spread wins on a shared key.
MergeHeaders(headers, optionsHeaders) ==
    [k \in DOMAIN headers \cup DOMAIN optionsHeaders |->
        IF k \in DOMAIN optionsHeaders THEN optionsHeaders[k] ELSE headers[k]]

\* The fetch() call fetchWithAuth makes before it suspends.
FetchCall(url, ls, optionsHeaders) ==
    [url |-> url, headers |-> MergeHeaders(getAuthHeaders(ls), optionsHeaders)]

Statuses == {200, 401, 403, 500}
ResponseOk(status) == status >= 200 /\ status <= 299
IsAuthFailure_AnyError(status) == status >= 400

IsAuthFailure(status) == status = 401 \/ status = 403

NetworkError == [kind |-> "networkError"]
Response(status) == [kind |-> "response", status |-> status]

\* What a call hands back to the application.
Out(kind) == [kind |-> kind]
Done(op, out) == [op |-> op, out |-> out]

logoutSync_RemovesFirst(ls, t) ==
    LET a == isAuthenticated(ls, t)
    IN  IF a.ret
        THEN [ls |-> removeToken(a.ls),
              calls |-> <<FetchCall(API_LOGOUT, a.ls, NoHeaders)>>, done |-> << >>]
        ELSE [ls |-> removeToken(a.ls), calls |-> << >>,
              done |-> <<Done("logout", Out("undefined"))>>]

logoutSync_AlwaysNotifies(ls, t) ==
    [ls |-> isAuthenticated(ls, t).ls,
     calls |-> <<FetchCall(API_LOGOUT, isAuthenticated(ls, t).ls, NoHeaders)>>,
     done |-> << >>]

\* logout() up to its first suspension: it either awaits the logout request
\* it has just sent, or runs to its end (finally: removeToken()).
logoutSync(ls, t) ==
    LET a == isAuthenticated(ls, t)
    IN  IF a.ret
        THEN [ls |-> a.ls, calls |-> <<FetchCall(API_LOGOUT, a.ls, NoHeaders)>>,
              done |-> << >>]
        ELSE [ls |-> removeToken(a.ls), calls |-> << >>,
              done |-> <<Done("logout", Out("undefined"))>>]

\* The requests of a step join those in flight, each under its awaiting caller.
Awaiting(calls, cont) == IF calls = << >> THEN EmptyBag ELSE SetToBag({cont})

Idle == pending = << >>
MayCall == Idle /\ BagCardinality(inflight) < MaxInflight


\* ------------------------------------------------------------------ actions
\* The clock advances.
Tick ==
    /\ Idle
    /\ now < MaxNow
    /\ now' = now + 1
    /\ fetched' = << >>
    /\ returned' = << >>
    /\ UNCHANGED <<localStorage, location, inflight, pending, sessionVars>>

\* The browser arrives at a URL (the OAuth redirect, or any other).
Navigate ==
    /\ Idle
    /\ \E loc \in Locations : location' = loc
    /\ fetched' = << >>
    /\ returned' = << >>
    /\ UNCHANGED <<localStorage, now, inflight, pending, sessionVars>>

CallIsAuthenticated ==
    /\ Idle
    /\ LET a == isAuthenticated(localStorage, now)
       IN  /\ localStorage' = a.ls
           /\ returned' = <<Done("isAuthenticated",
                                 Out(IF a.ret THEN "true" ELSE "false"))>>
    /\ fetched' = << >>
    /\ UNCHANGED <<now, location, inflight, pending, sessionVars>>

CallGetTokenExpiration ==
    /\ Idle
    /\ returned' = <<Done("getTokenExpiration", getTokenExpiration(localStorage))>>
    /\ fetched' = << >>
    /\ UNCHANGED <<localStorage, now, location, inflight, pending, sessionVars>>

handleTokenFromUrl_KeepsUrl(ls, loc) ==
    IF HasTokenParam(loc) /\ Truthy(loc.search["token"])
    THEN [ls |-> setToken(ls, loc.search["token"]), loc |-> loc, ret |-> TRUE]
    ELSE [ls |-> ls, loc |-> loc, ret |-> FALSE]

\* handleTokenFromUrl(): the storage and the location it leaves, and its result.
handleTokenFromUrl(ls, loc) ==
    IF HasTokenParam(loc) /\ Truthy(loc.search["token"])
    THEN [ls |-> setToken(ls, loc.search["token"]),
          loc |-> [pathname |-> loc.pathname, search |-> NoParams],
          ret |-> TRUE]
    ELSE [ls |-> ls, loc |-> loc, ret |-> FALSE]

CallHandleTokenFromUrl ==
    /\ Idle
    /\ LET h == handleTokenFromUrl(localStorage, location)
       IN  /\ localStorage' = h.ls
           /\ location' = h.loc
           /\ returned' = <<Done("handleTokenFromUrl",
                                 Out(IF h.ret THEN "true" ELSE "false"))>>
    /\ fetched' = << >>
    /\ UNCHANGED <<now, inflight, pending, sessionVars>>


\* fetchWithAuth(url, {headers}) called by the application (get, post and put
\* call it the same way, without headers).
CallFetchWithAuth ==
    /\ MayCall
    /\ \E h \in CallerHeaderSets :
          fetched' = <<FetchCall(API_OTHER, localStorage, h)>>
    /\ inflight' = inflight (+) SetToBag({"fetchWithAuth"})
    /\ returned' = << >>
    /\ UNCHANGED <<localStorage, now, location, pending, sessionVars>>

\* The Domain Operation Facade methods that throw "Not authenticated".
FacadeUrl ==
    [ updateTechnologies |-> "/api/user/technologies",
      updateProfession |-> "/api/user/profession",
      updateSocialLinks |-> "/api/user/social-links",
      sendConnectionRequest |-> "/api/connections/request",
      acceptConnectionRequest |-> "/api/connections/accept/{id}",
      rejectConnectionRequest |-> "/api/connections/reject/{id}",
      getConnections |-> "/api/connections",
      getConnectionRequests |-> "/api/connections/requests",
      getConnectionStatus |-> "/api/connections/status/{username}",
      removeConnection |-> "/api/connections/{id}" ]
FacadeMethods == DOMAIN FacadeUrl

\* A call that starts with `if (!this.isAuthenticated())`: without a session it
\* ends at once with `refused`, with one it sends its request and suspends.
GuardedCall(op, url, refused) ==
    LET a == isAuthenticated(localStorage, now)
    IN  /\ localStorage' = a.ls
        /\ IF a.ret
           THEN /\ fetched' = <<FetchCall(url, a.ls, NoHeaders)>>
                /\ inflight' = inflight (+) SetToBag({op})
                /\ returned' = << >>
           ELSE /\ fetched' = << >>
                /\ inflight' = inflight
                /\ returned' = <<refused>>
        /\ UNCHANGED <<now, location, pending, sessionVars>>

CallFacade ==
    /\ MayCall
    /\ \E m \in FacadeMethods :
          GuardedCall("facade", FacadeUrl[m], Done(m, Out("throwNotAuthenticated")))

CallGetCurrentUser ==
    /\ MayCall
    /\ GuardedCall("getCurrentUser", API_USER, Done("getCurrentUser", Out("null")))

CallRefreshToken ==
    /\ MayCall
    /\ GuardedCall("refreshToken", API_REFRESH, Done("refreshToken", Out("false")))

\* logout() called by the application.
CallLogout ==
    /\ MayCall
    /\ LET lo == logoutSync(localStorage, now)
       IN  /\ localStorage' = lo.ls
           /\ fetched' = lo.calls
           /\ inflight' = inflight (+) Awaiting(lo.calls, "logout")
           /\ returned' = lo.done
    /\ UNCHANGED <<now, location, pending, sessionVars>>

fetchWithAuthResume_NoRedirect(ls, t, loc, status) ==
    IF status = 401 \/ status = 403
    THEN LET lo == logoutSync(ls, t)
         IN  [ls |-> lo.ls, calls |-> lo.calls, done |-> lo.done, loc |-> loc]
    ELSE [ls |-> ls, calls |-> << >>, done |-> << >>, loc |-> loc]

\* A response arrives and fetchWithAuth resumes after `await fetch(...)`: on
\* 401 or 403 it calls logout() without awaiting it and sets the location,
\* then returns the response to its caller.
fetchWithAuthResume(ls, t, loc, status) ==
    IF IsAuthFailure(status)
    THEN LET lo == logoutSync(ls, t)
         IN  [ls |-> lo.ls, calls |-> lo.calls, done |-> lo.done,
              loc |-> SessionExpiredLocation]
    ELSE [ls |-> ls, calls |-> << >>, done |-> << >>, loc |-> loc]

Respond ==
    /\ Idle
    /\ \E c \in BagToSet(inflight), status \in Statuses :
          LET f == fetchWithAuthResume(localStorage, now, location, status)
          IN  /\ localStorage' = f.ls
              /\ location' = f.loc
              /\ fetched' = f.calls
              /\ returned' = f.done
              /\ inflight' = (inflight (-) SetToBag({c}))
                                 (+) Awaiting(f.calls, "logout")
              /\ pending' = <<[cont |-> c, outcome |-> Response(status)]>>
    /\ UNCHANGED <<now, sessionVars>>

\* fetch() rejects (no response): fetchWithAuth throws to its caller.
NetworkFail ==
    /\ Idle
    /\ \E c \in BagToSet(inflight) :
          /\ inflight' = inflight (-) SetToBag({c})
          /\ pending' = <<[cont |-> c, outcome |-> NetworkError]>>
    /\ fetched' = << >>
    /\ returned' = << >>
    /\ UNCHANGED <<localStorage, now, location, sessionVars>>

Resuming(cont) == pending # << >> /\ pending[1].cont = cont
Outcome == pending[1].outcome
GotOk == Outcome.kind = "response" /\ ResponseOk(Outcome.status)

\* The application's own call of fetchWithAuth gets the response, or the throw.
ResumeFetchWithAuth ==
    /\ Resuming("fetchWithAuth")
    /\ returned' = <<Done("fetchWithAuth", Outcome)>>
    /\ fetched' = << >>
    /\ pending' = << >>
    /\ UNCHANGED <<localStorage, now, location, inflight, sessionVars>>

\* A facade method after its await: the body on 2xx, otherwise a throw.
ResumeFacade ==
    /\ Resuming("facade")
    /\ returned' = <<Done("facade",
                          IF GotOk THEN Out("value")
                          ELSE IF Outcome.kind = "response" THEN Out("throwStatus")
                          ELSE Out("throwNetwork"))>>
    /\ fetched' = << >>
    /\ pending' = << >>
    /\ UNCHANGED <<localStorage, now, location, inflight, sessionVars>>

\* A call whose failure branch is `this.logout(); return <failed>`.
FailWithLogout(op, failed) ==
    LET lo == logoutSync(localStorage, now)
    IN  /\ localStorage' = lo.ls
        /\ fetched' = lo.calls
        /\ inflight' = inflight (+) Awaiting(lo.calls, "logout")
        /\ returned' = lo.done \o <<Done(op, failed)>>

\* getCurrentUser() after its await: the user on 2xx; any other response and
\* any throw end in the catch block.
ResumeGetCurrentUser ==
    /\ Resuming("getCurrentUser")
    /\ IF GotOk
       THEN /\ returned' = <<Done("getCurrentUser", Out("user"))>>
            /\ fetched' = << >>
            /\ UNCHANGED <<localStorage, inflight>>
       ELSE FailWithLogout("getCurrentUser", Out("null"))
    /\ pending' = << >>
    /\ UNCHANGED <<now, location, sessionVars>>

\* refreshToken() after its await.
ResumeRefreshToken ==
    /\ Resuming("refreshToken")
    /\ IF GotOk
       THEN /\ \E issued \in IssuedTokens :
                  localStorage' = setToken(localStorage, issued)
            /\ returned' = <<Done("refreshToken", Out("true"))>>
            /\ fetched' = << >>
            /\ UNCHANGED inflight
       ELSE FailWithLogout("refreshToken", Out("false"))
    /\ pending' = << >>
    /\ UNCHANGED <<now, location, sessionVars>>

ResumeLogout_SkipsRemoval ==
    /\ Resuming("logout")
    /\ localStorage' = localStorage
    /\ returned' = <<Done("logout", Out("undefined"))>>
    /\ fetched' = << >>
    /\ pending' = << >>
    /\ UNCHANGED <<now, location, inflight, sessionVars>>

\* logout() after its await, whatever the outcome: finally removeToken().
ResumeLogout ==
    /\ Resuming("logout")
    /\ localStorage' = removeToken(localStorage)
    /\ returned' = <<Done("logout", Out("undefined"))>>
    /\ fetched' = << >>
    /\ pending' = << >>
    /\ UNCHANGED <<now, location, inflight, sessionVars>>

\* ------------------------------------------------ cookie-session client (auth.ts)
USER_PROFILE == "USER_PROFILE"
REFRESH_TOKEN == "REFRESH_TOKEN"
LogoutLocation == [pathname |-> "LOGOUT", search |-> NoParams]

\* A timer handle is truthy: browsers number their timers from 1 and Node
\* returns an object.  0 stands for null.
NoTimer == 0

startSessionRefresh_KeepsOld(timer, ivs, id) ==
    [timer |-> id, ivs |-> ivs \cup {id}, cleared |-> << >>]

\* startSessionRefresh(), where setInterval returns id: the handle, the
\* intervals the runtime keeps and the clearInterval calls made.
startSessionRefresh(timer, ivs, id) ==
    IF timer # NoTimer
    THEN [timer |-> id, ivs |-> (ivs \ {timer}) \cup {id}, cleared |-> <<timer>>]
    ELSE [timer |-> id, ivs |-> ivs \cup {id}, cleared |-> << >>]

stopSessionRefresh_ForgetsHandleOnly(timer, ivs) ==
    [timer |-> NoTimer, ivs |-> ivs, cleared |-> << >>]

stopSessionRefresh_KeepsTimer(timer, ivs) ==
    [timer |-> timer, ivs |-> ivs, cleared |-> << >>]

\* stopSessionRefresh()
stopSessionRefresh(timer, ivs) ==
    IF timer # NoTimer
    THEN [timer |-> NoTimer, ivs |-> ivs \ {timer}, cleared |-> <<timer>>]
    ELSE [timer |-> timer, ivs |-> ivs, cleared |-> << >>]

SetTimer(r) ==
    /\ refreshTimer' = r.timer
    /\ intervals' = r.ivs
    /\ cleared' = r.cleared

SessionFetch(url) ==
    [url |-> url, headers |-> [k \in {"Accept"} |-> JsonContentType]]

\* authService.getCurrentUser() up to `await fetch(...)`.
SessionCallGetCurrentUser ==
    /\ userFetches < MaxUserFetches
    /\ userFetches' = userFetches + 1
    /\ fetched' = <<SessionFetch(USER_PROFILE)>>
    /\ returned' = << >>
    /\ cleared' = << >>
    /\ UNCHANGED <<refreshTimer, intervals, nextId, renewals>>
    /\ UNCHANGED <<localStorage, now, location, inflight, pending>>

getCurrentUserTail_KeepsTimerOnError(status, parses, timer, ivs, id) ==
    IF ResponseOk(status) /\ parses
    THEN [out |-> "user", started |-> TRUE, t |-> startSessionRefresh(timer, ivs, id)]
    ELSE [out |-> IF ResponseOk(status) THEN "rethrow" ELSE "null",
          started |-> FALSE,
          t |-> [timer |-> timer, ivs |-> ivs, cleared |-> << >>]]

\* getCurrentUser() from the arrival of a response to its end, where `parses`
\* says whether response.json() accepts the body of an ok response: its
\* result, the timer it leaves, and whether it called setInterval.  A body
\* that is not JSON makes response.json() throw inside the try block, so the
\* catch block stops the timer and rethrows.
getCurrentUserTail(status, parses, timer, ivs, id) ==
    IF ResponseOk(status) /\ parses
    THEN [out |-> "user", started |-> TRUE, t |-> startSessionRefresh(timer, ivs, id)]
    ELSE [out |-> IF ResponseOk(status) THEN "rethrow" ELSE "null",
          started |-> FALSE,
          t |-> stopSessionRefresh(timer, ivs)]

\* One getCurrentUser() call resumes with a response of this status.
SessionUserResponds(status, parses) ==
    /\ userFetches > 0
    /\ userFetches' = userFetches - 1
    /\ LET r == getCurrentUserTail(status, parses, refreshTimer, intervals, nextId)
       IN  /\ r.started => nextId <= MaxTimerId
           /\ SetTimer(r.t)
           /\ nextId' = IF r.started THEN nextId + 1 ELSE nextId
           /\ returned' = <<Done("session.getCurrentUser", Out(r.out))>>
    /\ fetched' = << >>
    /\ UNCHANGED renewals
    /\ UNCHANGED <<localStorage, now, location, inflight, pending>>

\* getCurrentUser() after its awaits, with a response.
SessionUserResponse ==
    \E status \in Statuses, parses \in BOOLEAN :
        /\ ~ResponseOk(status) => parses
        /\ SessionUserResponds(status, parses)

\* What the catch block of getCurrentUser() throws for each failure.
SessionFailures_Conflated ==
    [ AbortError |-> "throwUnableToConnect",
      FailedToFetch |-> "throwUnableToConnect",
      Other |-> "rethrow" ]

SessionFailures ==
    [ AbortError |-> "throwTimeout",
      FailedToFetch |-> "throwUnableToConnect",
      Other |-> "rethrow" ]

\* getCurrentUser() ends in its catch block: the 10 s abort, a transport
\* failure, or any other throw.
SessionUserFail ==
    /\ userFetches > 0
    /\ userFetches' = userFetches - 1
    /\ SetTimer(stopSessionRefresh(refreshTimer, intervals))
    /\ \E e \in DOMAIN SessionFailures :
          returned' = <<Done("session.getCurrentUser", Out(SessionFailures[e]))>>
    /\ fetched' = << >>
    /\ UNCHANGED <<nextId, renewals>>
    /\ UNCHANGED <<localStorage, now, location, inflight, pending>>

\* An interval fires: its callback calls refreshSession() and suspends.
TimerFire ==
    /\ BagCardinality(renewals) < MaxRenewals
    /\ \E id \in intervals : renewals' = renewals (+) SetToBag({id})
    /\ fetched' = <<SessionFetch(REFRESH_TOKEN)>>
    /\ returned' = << >>
    /\ cleared' = << >>
    /\ UNCHANGED <<refreshTimer, intervals, nextId, userFetches>>
    /\ UNCHANGED <<localStorage, now, location, inflight, pending>>

\* How the callback of interval `id` ended.
RenewalOut(kind, id) == [kind |-> kind, firedBy |-> id]

\* refreshSession() resolves and the timer callback resumes: response.ok, or
\* false for a response that is not ok and for a throw.
RenewalDone ==
    \E id \in BagToSet(renewals), refreshed \in BOOLEAN :
       /\ renewals' = renewals (-) SetToBag({id})
       /\ IF refreshed
          THEN /\ returned' = <<Done("refreshCallback", RenewalOut("refreshed", id))>>
               /\ cleared' = << >>
               /\ UNCHANGED <<refreshTimer, intervals>>
          ELSE /\ returned' = <<Done("refreshCallback", RenewalOut("failed", id))>>
               /\ SetTimer(stopSessionRefresh(refreshTimer, intervals))
    /\ fetched' = << >>
    /\ UNCHANGED <<nextId, userFetches>>
    /\ UNCHANGED <<localStorage, now, location, inflight, pending>>

\* authService.logout()
SessionLogout ==
    /\ SetTimer(stopSessionRefresh(refreshTimer, intervals))
    /\ location' = LogoutLocation
    /\ returned' = <<Done("session.logout", Out("undefined"))>>
    /\ fetched' = << >>
    /\ UNCHANGED <<nextId, renewals, userFetches>>
    /\ UNCHANGED <<localStorage, now, inflight, pending>>

\* ------------------------------------------------------------- specification
Init ==
    /\ localStorage \in {EmptyStorage} \cup { setToken(EmptyStorage, tk) : tk \in Tokens }
    /\ now = 1
    /\ location = [pathname |-> "/", search |-> NoParams]
    /\ inflight = EmptyBag
    /\ pending = << >>
    /\ fetched = << >>
    /\ returned = << >>
    /\ refreshTimer = 0
    /\ intervals = {}
    /\ nextId = 1
    /\ renewals = EmptyBag
    /\ userFetches = 0
    /\ cleared = << >>

Next ==
    \/ Tick
    \/ Navigate
    \/ CallIsAuthenticated
    \/ CallGetTokenExpiration
    \/ CallHandleTokenFromUrl
    \/ CallFetchWithAuth
    \/ CallFacade
    \/ CallGetCurrentUser
    \/ CallRefreshToken
    \/ CallLogout
    \/ Respond
    \/ NetworkFail
    \/ ResumeFetchWithAuth
    \/ ResumeFacade
    \/ ResumeGetCurrentUser
    \/ ResumeRefreshToken
    \/ ResumeLogout

Spec == Init /\ [][Next]_vars


NextSession ==
    \/ SessionCallGetCurrentUser
    \/ SessionUserResponse
    \/ SessionUserFail
    \/ TimerFire
    \/ RenewalDone
    \/ SessionLogout

SpecSession == Init /\ [][NextSession]_vars


\* ===================================================================== claims
\* Vocabulary of the claims, as the specification words it.
StoredToken == getToken(localStorage)
\* Absent: load() returns absent.
StoreEmpty == ~HasItem(localStorage)
\* Malformed: fewer than two segments, a middle segment that is not base64,
\* or one that is not a JSON object.
Malformed(token) == token \in MalformedTokens
\* Expired: exp is not in the future.
Expired(token, t) == token \in ExpTokens /\ token[2].text.val.props.exp <= t
\* Valid per the Inspector: present, decodable, exp in the future.
ValidPerInspector(ls, t) ==
    /\ HasItem(ls)
    /\ getToken(ls) \in ExpTokens
    /\ getToken(ls)[2].text.val.props.exp > t
Unauthenticated(ls, t) ==
    ~HasItem(ls) \/ Malformed(getToken(ls)) \/ Expired(getToken(ls), t)

FetchedCalls == { fetched[i] : i \in 1..Len(fetched) }
Returned(op, kind) == returned = <<Done(op, Out(kind))>>

\* ------------------------------------------------ teardown under fair scheduling
\* The bearer client when every request in flight is eventually answered and
\* every suspended caller eventually resumes.  No credential is saved: the
\* application calls neither handleTokenFromUrl() nor refreshToken(), and once
\* the pipeline has set the location to the re-authentication entry point the
\* page is on its way out and the application starts no further call.
BeforeRedirect == location # SessionExpiredLocation

NextTeardown ==
    \/ Tick
    \/ (BeforeRedirect /\ CallIsAuthenticated)
    \/ (BeforeRedirect /\ CallFetchWithAuth)
    \/ (BeforeRedirect /\ CallFacade)
    \/ (BeforeRedirect /\ CallGetCurrentUser)
    \/ (BeforeRedirect /\ CallLogout)
    \/ Respond
    \/ NetworkFail
    \/ ResumeFetchWithAuth
    \/ ResumeFacade
    \/ ResumeGetCurrentUser
    \/ ResumeLogout

\* fetch() settles every request, and the event loop runs every continuation.
RequestSettles == Respond \/ NetworkFail
CallerResumes ==
    ResumeFetchWithAuth \/ ResumeFacade \/ ResumeGetCurrentUser \/ ResumeLogout

SpecTeardown ==
    Init /\ [][NextTeardown]_vars /\ WF_vars(RequestSettles) /\ WF_vars(CallerResumes)

\* C1: when fetchWithAuth returns a response with status 401 or 403 to its
\* caller, the credential store is already empty.
C1_StoreEmptyWhenAuthFailureReturns ==
    (/\ pending # << >>
     /\ pending[1].outcome.kind = "response"
     /\ IsAuthFailure(pending[1].outcome.status))
        => StoreEmpty

\* C2: a request the pipeline dispatches (the caller passing no Authorization
\* of its own) carries the stored credential as its Authorization header if
\* and only if the stored credential is valid per the Inspector.
C2_AuthorizationIffValid ==
    \A f \in FetchedCalls :
        LET sent == "Authorization" \in DOMAIN f.headers
        IN  ~(sent /\ f.headers["Authorization"] = CallerAuthorization)
               => /\ sent <=> ValidPerInspector(localStorage, now)
                  /\ sent => f.headers["Authorization"] = Bearer(StoredToken)

\* C3: when a credential is attached, the dispatched request carries the
\* Authorization value built from the stored credential, whatever headers the
\* caller passed.
C3_CallerCannotReplaceAuthorization ==
    \A f \in FetchedCalls :
        (HasItem(localStorage) /\ Truthy(StoredToken))
            => /\ "Authorization" \in DOMAIN f.headers
               /\ f.headers["Authorization"] = Bearer(StoredToken)

\* C4: a facade method invoked while the stored credential is absent, expired
\* or malformed issues no network request and signals an
\* authentication-required failure (getCurrentUser: its null result).
C4_FacadeRefusesWithoutSession ==
    [][ ((CallFacade \/ CallGetCurrentUser) /\ Unauthenticated(localStorage, now))
          => /\ fetched' = << >>
             /\ inflight' = inflight
             /\ \/ \E m \in FacadeMethods :
                      returned' = <<Done(m, Out("throwNotAuthenticated"))>>
                \/ returned' = <<Done("getCurrentUser", Out("null"))>> ]_vars

\* C5: for a stored credential whose claims carry exp, isAuthenticated()
\* returns true exactly when exp is strictly greater than the current time.
C5_ValidIffExpInFuture ==
    [][ (CallIsAuthenticated /\ HasItem(localStorage) /\ StoredToken \in ExpTokens)
          => (returned' = <<Done("isAuthenticated", Out("true"))>>
                <=> StoredToken[2].text.val.props.exp > now) ]_vars

C7_MalformedIsInvalid ==
    [][ (HasItem(localStorage) /\ Malformed(StoredToken))
          => /\ CallIsAuthenticated
                   => returned' = <<Done("isAuthenticated", Out("false"))>>
             /\ CallGetTokenExpiration
                   => returned' = <<Done("getTokenExpiration", Out("null"))>> ]_vars


\* C8 as claimed: whenever the location carries a token parameter,
\* handleTokenFromUrl() stores that value, removes the parameter and returns
\* true.
C8_AnyTokenParamExtracted ==
    [][ (CallHandleTokenFromUrl /\ HasTokenParam(location))
          => /\ returned' = <<Done("handleTokenFromUrl", Out("true"))>>
             /\ HasItem(localStorage')
             /\ getToken(localStorage') = location.search["token"]
             /\ ~HasTokenParam(location') ]_vars

\* What an immediately following call of handleTokenFromUrl() does.
SecondCall == handleTokenFromUrl(localStorage', location')

\* C8 as amended: with a non-empty token parameter the call stores exactly
\* that value over any prior credential, removes the parameter, keeps the
\* pathname and returns true, and a second call right after it returns false
\* and changes neither store nor location; with the parameter absent or empty
\* the call returns false and changes neither.
C8_Idempotent ==
    [][ CallHandleTokenFromUrl
          => IF HasTokenParam(location) /\ location.search["token"] # EmptyString
             THEN /\ returned' = <<Done("handleTokenFromUrl", Out("true"))>>
                  /\ HasItem(localStorage')
                  /\ getToken(localStorage') = location.search["token"]
                  /\ ~HasTokenParam(location')
                  /\ location'.pathname = location.pathname
                  /\ ~SecondCall.ret
                  /\ SecondCall.ls = localStorage'
                  /\ SecondCall.loc = location'
             ELSE /\ returned' = <<Done("handleTokenFromUrl", Out("false"))>>
                  /\ localStorage' = localStorage
                  /\ location' = location ]_vars

\* A credential that arrived on the callback path has been extracted over a
\* stored one that clock 1 had already outlived.
C8_Witness ==
    /\ Returned("handleTokenFromUrl", "true")
    /\ HasItem(localStorage)
    /\ StoredToken = ExpToken(MaxExp)
    /\ location = [pathname |-> "/auth/callback", search |-> NoParams]

\* The handle names the one interval that is still firing, if any.
OneActiveTimer ==
    intervals = IF refreshTimer = NoTimer THEN {} ELSE {refreshTimer}

\* A start made while a timer is active cancels that timer.
StartCancelsOld ==
    (refreshTimer # NoTimer /\ refreshTimer' \notin {NoTimer, refreshTimer})
        => /\ cleared' = <<refreshTimer>>
           /\ refreshTimer \notin intervals'

\* A stop made while no timer is active does nothing.
StopIsNoOp ==
    (refreshTimer = NoTimer /\ (SessionLogout \/ SessionUserFail))
        => /\ cleared' = << >>
           /\ UNCHANGED <<refreshTimer, intervals>>

\* C9: at most one recurring timer is active and it is the one the handle
\* refers to; a start cancels the active timer first; a stop with none active
\* is a no-op.
C9_SingleTimer ==
    []OneActiveTimer /\ [][StartCancelsOld /\ StopIsNoOp]_vars

\* A second start has superseded the first timer.
C9_Witness ==
    /\ refreshTimer = 2
    /\ cleared = <<1>>
    /\ intervals = {2}
    /\ Returned("session.getCurrentUser", "user")

\* The callback of interval `id` has just ended this way.
RenewalEnded(kind, id) == returned = <<Done("refreshCallback", RenewalOut(kind, id))>>

\* C10: each firing issues one renewal call; when that call succeeds the
\* timer is left as it is, and when it fails the timer is cancelled, so no
\* interval fires until the next start.
C10_RenewalOutcome ==
    [][ /\ TimerFire
            => /\ fetched' = <<SessionFetch(REFRESH_TOKEN)>>
               /\ BagCardinality(renewals') = BagCardinality(renewals) + 1
        /\ (RenewalDone /\ returned'[1].out.kind = "refreshed")
            => UNCHANGED <<refreshTimer, intervals>>
        /\ (RenewalDone /\ returned'[1].out.kind = "failed")
            => /\ refreshTimer' = NoTimer
               /\ intervals' = {} ]_vars

\* A failed renewal has cancelled the timer that was active.
C10_Witness ==
    /\ RenewalEnded("failed", 1)
    /\ cleared # << >>
    /\ refreshTimer = NoTimer
    /\ intervals = {}

\* A request has just settled: its outcome is on its way to the caller.
Settled == pending = << >> /\ pending' # << >>
\* The response fetchWithAuth has just handed to its caller.
HandedResponse == pending'[1].outcome

\* C11: every 401 or 403 response sets the location to the re-authentication
\* entry point with the session-expired marker, and fetchWithAuth still
\* returns that response to its caller instead of raising.
C11_AuthFailureRedirectsAndReturns ==
    [][ /\ (Settled /\ Respond /\ HandedResponse.status \in {401, 403})
            => /\ location' = SessionExpiredLocation
               /\ HandedResponse.kind = "response"
        /\ (ResumeFetchWithAuth /\ Outcome.kind = "response")
            => returned' = <<Done("fetchWithAuth", Outcome)>> ]_vars

\* The caller of fetchWithAuth holds the 403 and the page is being redirected.
C11_Witness ==
    /\ returned = <<Done("fetchWithAuth", Response(403))>>
    /\ location = SessionExpiredLocation

\* C12: a response whose status is neither 401 nor 403 is returned as it is,
\* and neither the credential store nor the location changes: no teardown, no
\* logout request, no redirect.
C12_OtherStatusPassesThrough ==
    [][ (Settled /\ Respond /\ HandedResponse.status \notin {401, 403})
          => /\ HandedResponse.kind = "response"
             /\ localStorage' = localStorage
             /\ location' = location
             /\ fetched' = << >>
             /\ BagCardinality(inflight') = BagCardinality(inflight) - 1 ]_vars

\* A 500 went through with a credential stored and no redirect.
C12_Witness ==
    /\ pending # << >>
    /\ pending[1].outcome = Response(500)
    /\ HasItem(localStorage)
    /\ location # SessionExpiredLocation

\* C13: a network-level failure of a caller-facing operation (fetchWithAuth, a
\* facade method, getCurrentUser) reaches the caller as a failure of its own:
\* it is not turned into the `not authenticated` null result and it starts no
\* teardown of the credential.
C13_NetworkFailureSurfaced ==
    [][ ((ResumeFetchWithAuth \/ ResumeFacade \/ ResumeGetCurrentUser)
            /\ Outcome = NetworkError)
          => /\ returned' \in { <<Done("fetchWithAuth", NetworkError)>>,
                                <<Done("facade", Out("throwNetwork"))>>,
                                <<Done("getCurrentUser", Out("throwNetwork"))>> }
             /\ fetched' = << >>
             /\ localStorage' = localStorage ]_vars

\* The steps that run logout(): the application's call, the pipeline on 401
\* or 403, and the end of a logout that awaited its request.
ExplicitLogoutStep == CallLogout \/ ResumeLogout
PipelineTeardownStep == Respond /\ HandedResponse.status \in {401, 403}

ValidityCheckStep ==
    \/ CallIsAuthenticated
    \/ CallFacade
    \/ CallGetCurrentUser
    \/ CallRefreshToken
    \/ CallLogout
    \/ PipelineTeardownStep
    \/ (ResumeGetCurrentUser /\ ~GotOk)
    \/ (ResumeRefreshToken /\ ~GotOk)

C15_RefreshOutcome ==
    [][ ResumeRefreshToken
          => IF GotOk
             THEN /\ returned' = <<Done("refreshToken", Out("true"))>>
                  /\ HasItem(localStorage')
                  /\ getToken(localStorage') \in IssuedTokens
             ELSE /\ returned'[Len(returned')] = Done("refreshToken", Out("false"))
                  /\ ~HasItem(localStorage') ]_vars

\* C19: the validity check is self-cleaning: when isAuthenticated() returns
\* false the credential store is empty immediately afterwards, and when it
\* returns true the store is as it was.
C19_ValidityCheckSelfCleaning ==
    [][ CallIsAuthenticated
          => /\ returned' = <<Done("isAuthenticated", Out("false"))>>
                  => ~HasItem(localStorage')
             /\ returned' = <<Done("isAuthenticated", Out("true"))>>
                  => localStorage' = localStorage ]_vars

\* isAuthenticated() has just returned false with the store empty while a
\* request sent under a then-valid credential is still in flight: the
\* credential expired in between and a check removed it.
C19_Witness ==
    /\ returned = <<Done("isAuthenticated", Out("false"))>>
    /\ ~HasItem(localStorage)
    /\ BagToSet(inflight) = {"facade"}
    /\ location = [pathname |-> "/", search |-> NoParams]

\* The renewal timer is active: the handle names an interval that still fires.
TimerActive == refreshTimer # NoTimer /\ refreshTimer \in intervals
TimerInactive == refreshTimer = NoTimer /\ intervals = {}

\* C16 as claimed: after getCurrentUser() completes with a 2xx response the
\* timer is active, whatever the body of that response.
C16_TimerActiveAfterAny2xx ==
    [][ \A status \in Statuses, parses \in BOOLEAN :
          (SessionUserResponds(status, parses) /\ ResponseOk(status)) => TimerActive' ]_vars

\* C16 as amended: after getCurrentUser() completes with a 2xx response whose
\* body parses, the timer is active and it is a freshly started one; after it
\* completes with a 2xx response whose body does not parse, with any non-2xx
\* status, with a timeout or with a network failure, the timer is not active;
\* after logout() the timer is not active.  Each completion sets the timer
\* state by itself, so with overlapping calls the last completion decides.
C16_TimerFollowsLastCompletion ==
    [][ /\ \A status \in Statuses, parses \in BOOLEAN :
              SessionUserResponds(status, parses)
                => IF ResponseOk(status) /\ parses
                   THEN TimerActive' /\ refreshTimer' = nextId /\ intervals' = {nextId}
                   ELSE TimerInactive'
        /\ SessionUserFail => TimerInactive'
        /\ SessionLogout => TimerInactive' ]_vars

\* A call answered with a non-2xx status has just cancelled timer 1, which a
\* call that completed before it had started; no call is left in flight.
C16_Witness ==
    /\ Returned("session.getCurrentUser", "null")
    /\ cleared = <<1>>
    /\ TimerInactive
    /\ userFetches = 0
    /\ nextId = 2

\* A step that stops or replaces the timer and is not a renewal's completion.
CancelsTimer == cleared' # << >> /\ ~RenewalDone

\* C17: cancelling or superseding the timer leaves the renewal calls in flight
\* as they are, each of them can still complete, and a failed one stops the
\* timer that is active when it completes, whichever interval fired it; a
\* successful one leaves the timer alone.
C17_InflightRenewalStillApplies ==
    /\ [](BagCardinality(renewals) > 0 => ENABLED RenewalDone)
    /\ [][ /\ CancelsTimer => renewals' = renewals
           /\ RenewalDone
                => \/ /\ returned'[1].out.kind = "failed"
                      /\ TimerInactive'
                      /\ cleared' = IF refreshTimer # NoTimer
                                    THEN <<refreshTimer>> ELSE << >>
                   \/ /\ returned'[1].out.kind = "refreshed"
                      /\ UNCHANGED <<refreshTimer, intervals>>
                      /\ cleared' = << >> ]_vars

\* The renewal fired by interval 1 has failed after interval 1 was superseded
\* by interval 2, and has cancelled interval 2.
C17_Witness ==
    /\ RenewalEnded("failed", 1)
    /\ cleared = <<2>>
    /\ TimerInactive

\* C18: in getCurrentUser(), the 10-second abort and a transport failure reach
\* the caller as two different failures, neither of them as the null result,
\* and the timer has been stopped when the failure is raised.
C18_TimeoutAndNetworkDistinct ==
    /\ [](SessionFailures["AbortError"] # SessionFailures["FailedToFetch"])
    /\ [][ SessionUserFail
             => /\ \E e \in DOMAIN SessionFailures :
                     returned' = <<Done("session.getCurrentUser", Out(SessionFailures[e]))>>
                /\ ~Returned("session.getCurrentUser", "null")'
                /\ returned'[1].out.kind \in {"throwTimeout", "throwUnableToConnect", "rethrow"}
                /\ TimerInactive'
                /\ cleared' = IF refreshTimer # NoTimer
                              THEN <<refreshTimer>> ELSE << >> ]_vars

\* A call has just ended with the timeout failure and stopped timer 1.
C18_Witness ==
    /\ Returned("session.getCurrentUser", "throwTimeout")
    /\ cleared = <<1>>
    /\ TimerInactive

\* Nothing is in flight and no caller is waiting to resume.
Quiescent == inflight = EmptyBag /\ pending = << >>

\* The requests in flight never outnumber those the application may have
\* open plus one logout notification for each of them.
MaxTeardownInflight == 2 * MaxInflight

\* C20: failure-driven teardown terminates.  Once a 401 or 403 has made the
\* pipeline run logout() and redirect, and whatever the logout notifications
\* are answered with (401 and 403 included), the requests in flight stay
\* bounded and the client reaches a state with nothing in flight, no caller
\* suspended and the credential store empty.
C20_TeardownTerminates ==
    /\ [](BagCardinality(inflight) <= MaxTeardownInflight)
    /\ (location = SessionExpiredLocation) ~> (Quiescent /\ StoreEmpty)

\* A logout notification has itself been answered with 401, and the logout()
\* this re-triggered has sent another notification.
C20_Witness ==
    /\ location = SessionExpiredLocation
    /\ pending = <<[cont |-> "logout", outcome |-> Response(401)]>>
    /\ Len(fetched) = 1
    /\ fetched[1].url = API_LOGOUT
    /\ HasItem(localStorage)

\* A logout() call has completed in this step.
LogoutCompletes ==
    \E i \in 1..Len(returned') : returned'[i] = Done("logout", Out("undefined"))

\* C21: whenever a logout() call completes, the credential store is empty at
\* that moment: whether the notification was answered (with any status),
\* failed at the network, or was skipped, and whatever the store held while
\* logout() was waiting for the answer.
C21_StoreEmptyWhenLogoutCompletes ==
    [][ /\ LogoutCompletes => ~HasItem(localStorage')
        /\ ResumeLogout => LogoutCompletes ]_vars

\* The notification of a logout() has been answered and logout() is the next
\* to run (no other step is possible while a caller is about to resume), with
\* a credential in the store that isAuthenticated() rejects at any time: not
\* the one logout() was started with, but one saved from the URL during the
\* wait.
C21_Witness ==
    /\ pending = <<[cont |-> "logout", outcome |-> Response(200)]>>
    /\ HasItem(localStorage)
    /\ StoredToken = WithMiddle(NotBase64)
    /\ location = [pathname |-> "/auth/callback", search |-> NoParams]

\* A teardown started by a 401 or 403 has completed and left the store empty:
\* the location still carries the session-expired marker the pipeline set, no
\* logout() is waiting for its notification, and no credential is stored.
TeardownCompleted ==
    /\ location = SessionExpiredLocation
    /\ "logout" \notin BagToSet(inflight)
    /\ ~Resuming("logout")
    /\ ~HasItem(localStorage)

\* C22: once a teardown has completed and emptied the store, a credential
\* appears in the store again only through a new extraction from the URL (a
\* renewal started after the teardown needs such a credential first, since
\* refreshToken() returns at once without one); in particular not through
\* the response of a refreshToken() that was in flight before the teardown.
C22_StoreStaysEmptyAfterTeardown ==
    [][ (TeardownCompleted /\ HasItem(localStorage')) => CallHandleTokenFromUrl ]_vars

====
